---- MODULE Spec2Model ----
(***************************************************************************)
(* Safari storage scanner: the recursive directory-size accumulator        *)
(* (getDirectorySize / processDirectory), the scan orchestrator            *)
(* (scanSafariStorage), the byte formatter (formatBytes) and the two HTTP  *)
(* endpoints that drive a scan (/api/scan, /api/scan-sync).                *)
(***************************************************************************)
EXTENDS Integers, Sequences, FiniteSets, TLC

VARIABLES
  fs,              \* the file system: node -> [kind, size, target, fault]
  listing,         \* directory -> the array readdirSync gave for it (<< >> before its first listing)
  mode,            \* "sse" (/api/scan, progress callback given) or "sync" (/api/scan-sync, none)
  throwOn,         \* the progress event on which the sink throws, or NoThrow
  pc,              \* position of the request: idle, loop, delay, walk, resolved, rejected, ended
  catIdx,          \* index into categories of the for-loop of scanSafariStorage
  results,         \* scanSafariStorage: results
  totalSize,       \* getDirectorySize: totalSize
  itemCount,       \* getDirectorySize: itemCount
  processedItems,  \* getDirectorySize: processedItems
  stack,           \* pending processDirectory calls, next one first
  events,          \* every event object handed to progressCallback, in order
  stream,          \* what the endpoint has written to the client, in order
  thrown,          \* whether an invocation of progressCallback has thrown
  fmtIn,           \* formatter check: the byte count, as base-1024 digits
  fmtOut           \* formatter check: the rendered string ("" before the call)

vars == << fs, listing, mode, throwOn, pc, catIdx, results, totalSize, itemCount,
           processedItems, stack, events, stream, thrown, fmtIn, fmtOut >>

(***************************************************************************)
(* Bounds of the model.                                                    *)
(***************************************************************************)
\* File sizes range over 0..MaxFileSize.
MaxFileSize == 1
\* Symbolic links the operating system follows in one path resolution
\* before failing with ELOOP.
MaxSymlinks == 2

(***************************************************************************)
(* The file system under the home directory.                               *)
(***************************************************************************)
CookiesDir   == "Library/Cookies"
CookiesFile  == "Library/Cookies/Cookies.binarycookies"
CacheDir     == "Library/Caches/com.apple.Safari"
SafariDir    == "Library/Safari"
HistoryFile  == "Library/Safari/History.db"
LocalDir     == "Library/Safari/LocalStorage"
LocalFile    == "Library/Safari/LocalStorage/site.localstorage"
DatabasesDir == "Library/Safari/Databases"
WebDataDir   == "Library/Safari/WebsiteData"
\* A path no node has: the target of a dangling link.
Dangling     == "Library/Cookies/gone"

Dirs   == {CookiesDir, CacheDir, SafariDir, LocalDir, DatabasesDir}
Leaves == {CookiesFile, HistoryFile, LocalFile}
Nodes  == Dirs \cup Leaves

\* path.basename of a node's path
basename(n) ==
  CASE n = CookiesDir   -> "Cookies"
    [] n = CookiesFile  -> "Cookies.binarycookies"
    [] n = CacheDir     -> "com.apple.Safari"
    [] n = SafariDir    -> "Safari"
    [] n = HistoryFile  -> "History.db"
    [] n = LocalDir     -> "LocalStorage"
    [] n = LocalFile    -> "site.localstorage"
    [] n = DatabasesDir -> "Databases"

\* The directory entries each directory can hold.
Entries(n) ==
  CASE n = CookiesDir   -> {CookiesFile}
    [] n = SafariDir    -> {HistoryFile, LocalDir, DatabasesDir}
    [] n = LocalDir     -> {LocalFile}
    [] OTHER            -> {}

\* The directories a path goes through below the home directory.
Ancestors(n) ==
  CASE n = CookiesFile  -> {CookiesDir}
    [] n = HistoryFile  -> {SafariDir}
    [] n = LocalDir     -> {SafariDir}
    [] n = DatabasesDir -> {SafariDir}
    [] n = LocalFile    -> {SafariDir, LocalDir}
    [] OTHER            -> {}

AbsentNode      == [kind |-> "absent", size |-> 0, target |-> "", fault |-> "none"]
FileNode(s)     == [kind |-> "file",   size |-> s, target |-> "", fault |-> "none"]
DirNode         == [kind |-> "dir",    size |-> 0, target |-> "", fault |-> "none"]
\* socket, device, fifo: neither isFile() nor isDirectory()
OtherNode       == [kind |-> "other",  size |-> 0, target |-> "", fault |-> "none"]
LinkNode(t)     == [kind |-> "link",   size |-> 0, target |-> t,  fault |-> "none"]
\* exists at existsSync, gone at statSync
VanishingFile   == [kind |-> "file",   size |-> 0, target |-> "", fault |-> "vanish"]
VanishingDir    == [kind |-> "dir",    size |-> 0, target |-> "", fault |-> "vanish"]
\* a directory whose listing is denied
UnreadableDir   == [kind |-> "dir",    size |-> 0, target |-> "", fault |-> "eacces"]

FileSizes == 0..MaxFileSize

\* Every directory readable, every leaf a regular file of the given size.
BaseFs(sz) == [n \in Nodes |-> IF n \in Dirs THEN DirNode ELSE FileNode(sz[n])]

LinkTargets(n) == {n, CookiesDir, SafariDir, HistoryFile, LocalDir, Dangling}

\* What a node can be instead.
Alternatives(n) ==
  IF n \in Dirs
    THEN {AbsentNode, UnreadableDir, VanishingDir}
    ELSE {AbsentNode, OtherNode, VanishingFile} \cup {LinkNode(t) : t \in LinkTargets(n)}

\* The file systems a scan starts from: the base one, or the base one with
\* one node replaced.
FileSystems ==
  LET bases == {BaseFs(sz) : sz \in [Leaves -> FileSizes]}
  IN  bases \cup UNION {UNION {{[b EXCEPT ![n] = a] : a \in Alternatives(n)} : n \in Nodes}
                          : b \in bases}

(***************************************************************************)
(* Path resolution and the fs calls of processDirectory.  A path being     *)
(* processed is [path, node, links]: the path string, the node its last    *)
(* component names, and the symbolic links followed on the way there.      *)
(***************************************************************************)
\* Every directory on the way to n is there.
Reachable(n) ==
  \A d \in Ancestors(n) : fs[d].kind = "dir" /\ fs[d].fault # "vanish"

\* Follows the links at n; k links were followed before.  ok is FALSE when
\* the resolution fails (ENOENT, ELOOP).
RECURSIVE Resolve(_, _)
Resolve(n, k) ==
  IF n \notin Nodes \/ ~Reachable(n) \/ fs[n].kind = "absent"
    THEN [ok |-> FALSE, node |-> n, links |-> k]
    ELSE IF fs[n].kind = "link"
      THEN IF k + 1 > MaxSymlinks
             THEN [ok |-> FALSE, node |-> n, links |-> k]
             ELSE Resolve(fs[n].target, k + 1)
      ELSE [ok |-> TRUE, node |-> n, links |-> k]

\* fs.existsSync(currentPath)
existsSync(p) == Resolve(p.node, p.links).ok

\* fs.statSync(currentPath) throws
statThrows(p) ==
  LET r == Resolve(p.node, p.links)
  IN  ~r.ok \/ fs[r.node].fault = "vanish"

\* fs.statSync(currentPath): the node the path resolves to
statSync(p) == fs[Resolve(p.node, p.links).node]

\* fs.readdirSync(currentPath) throws
readdirThrows(p) == fs[Resolve(p.node, p.links).node].fault = "eacces"

\* The entries a directory holds.
Present(d) == {c \in Entries(d) : fs[c].kind # "absent"}

\* The arrays fs.readdirSync can give for a directory: its entries, in any
\* order, since the call promises none.
Listings(d) ==
  {l \in [1..Cardinality(Present(d)) -> Present(d)] :
     \A i, j \in 1..Cardinality(Present(d)) : l[i] = l[j] => i = j}

\* fs.readdirSync(currentPath): one of the arrays the directory can give, the
\* one it gave before when it was listed already (nothing changes on disk
\* during a scan).
readdirSync(p) ==
  LET d == Resolve(p.node, p.links).node
  IN  IF listing[d] # << >> THEN {listing[d]} ELSE Listings(d)

\* path.join(currentPath, file)
join(p, file) ==
  [path |-> p.path \o "/" \o basename(file), node |-> file,
   links |-> Resolve(p.node, p.links).links]

\* The path of a category root.
RootPath(n) == [path |-> n, node |-> n, links |-> 0]

(***************************************************************************)
(* formatBytes.  A byte count is a JavaScript number; it is held here as   *)
(* its base-1024 digits, least significant first, so that counts of a      *)
(* terabyte and more are inputs too.                                       *)
(***************************************************************************)
\* The base-1024 digits of a natural number.
RECURSIVE Digits(_)
Digits(n) == IF n = 0 THEN << >> ELSE << n % 1024 >> \o Digits(n \div 1024)

\* Position of the most significant non-zero digit, 0 for zero.
RECURSIVE Top(_, _)
Top(bytes, j) ==
  IF j = 0 THEN 0 ELSE IF bytes[j] # 0 THEN j ELSE Top(bytes, j - 1)

\* const sizes = ['B', 'KB', 'MB', 'GB']
Units == << "B", "KB", "MB", "GB" >>

\* sizes[i], which is undefined past the end of the array
sizes(i) == IF i + 1 \in DOMAIN Units THEN Units[i + 1] ELSE "undefined"

\* Math.floor(Math.log(bytes) / Math.log(k))
LogK(bytes) == Top(bytes, Len(bytes)) - 1

\* floor(200 * (digits 1..j of bytes) / 1024^j)
RECURSIVE Carry(_, _)
Carry(bytes, j) ==
  IF j = 0 THEN 0 ELSE (200 * bytes[j] + Carry(bytes, j - 1)) \div 1024

\* (bytes / Math.pow(k, i)).toFixed(2), in hundredths: the nearest, a tie
\* going up.
toFixed2(bytes, i) == 100 * bytes[i + 1] + (Carry(bytes, i) + 1) \div 2

DigitChar(d) ==
  CASE d = 0 -> "0" [] d = 1 -> "1" [] d = 2 -> "2" [] d = 3 -> "3" [] d = 4 -> "4"
    [] d = 5 -> "5" [] d = 6 -> "6" [] d = 7 -> "7" [] d = 8 -> "8" [] d = 9 -> "9"

\* A natural number in decimal.
RECURSIVE NatString(_)
NatString(n) ==
  IF n < 10 THEN DigitChar(n) ELSE NatString(n \div 10) \o DigitChar(n % 10)

\* parseFloat(x.toFixed(2)) + '': the number of the two-decimal string,
\* printed without trailing zeros.
parseFloatString(h) ==
  IF h % 100 = 0 THEN NatString(h \div 100)
  ELSE IF h % 10 = 0 THEN NatString(h \div 100) \o "." \o DigitChar((h % 100) \div 10)
  ELSE NatString(h \div 100) \o "." \o DigitChar((h % 100) \div 10) \o DigitChar(h % 10)

formatBytes(bytes) ==
  IF Top(bytes, Len(bytes)) = 0 THEN "0 B"
  ELSE LET i == LogK(bytes)
       IN  parseFloatString(toFixed2(bytes, i)) \o " " \o sizes(i)

(***************************************************************************)
(* scanSafariStorage and getDirectorySize.                                 *)
(***************************************************************************)
SAFARI_PATHS ==
  [cookies |-> CookiesDir, cache |-> CacheDir, history |-> SafariDir,
   localStorage |-> LocalDir, databases |-> DatabasesDir, webData |-> WebDataDir]

\* The list with history and cache exchanged.
categoriesSwapped == << "cookies", "history", "cache", "localStorage", "databases" >>

categories == << "cookies", "cache", "history", "localStorage", "databases" >>

InitialResults ==
  [cookies      |-> [size |-> 0, items |-> 0, category |-> "Browsing cookies"],
   cache        |-> [size |-> 0, items |-> 0, category |-> "Browser cache"],
   history      |-> [size |-> 0, items |-> 0, category |-> "Website history"],
   localStorage |-> [size |-> 0, items |-> 0, category |-> "Local storage"],
   databases    |-> [size |-> 0, items |-> 0, category |-> "Web databases"],
   total        |-> [size |-> 0, items |-> 0]]

\* The sink never throws.
NoThrow == [kind |-> "none", scanning |-> ""]

\* The events a sink can fail on: the start event or the file events of
\* one category.
ThrowPoints ==
  {NoThrow} \cup [kind : {"start", "found"}, scanning : {categories[i] : i \in 1..Len(categories)}]

\* The event object of lines 110-114.
StartEvent(category) ==
  [scanning |-> category,
   message  |-> "Scanning " \o results[category].category \o "...",
   current  |-> results.total]

\* The file event with the total of the completed categories alone.
FoundEventStale(category, progress) ==
  [scanning     |-> category,
   message      |-> "Found: " \o progress.currentFile,
   currentSize  |-> progress.totalSize,
   currentItems |-> progress.itemCount,
   total        |-> [size |-> results.total.size, items |-> results.total.items]]

\* The event object of lines 122-131, built from the progress object of
\* lines 52-57.
FoundEvent(category, progress) ==
  [scanning     |-> category,
   message      |-> "Found: " \o progress.currentFile,
   currentSize  |-> progress.totalSize,
   currentItems |-> progress.itemCount,
   total        |-> [size  |-> results.total.size + progress.totalSize,
                     items |-> results.total.items + progress.itemCount]]

\* progress.total?.size || 0
TotalSizeOf(progress) == IF "total" \in DOMAIN progress THEN progress.total.size ELSE 0

\* progress.total?.items || 0
TotalItemsOf(progress) == IF "total" \in DOMAIN progress THEN progress.total.items ELSE 0

\* The message the /api/scan callback writes for one progress event.
ProgressMessage(progress) ==
  [type          |-> "progress",
   scanning      |-> progress.scanning,
   message       |-> progress.message,
   size          |-> TotalSizeOf(progress),
   items         |-> TotalItemsOf(progress),
   sizeFormatted |-> formatBytes(Digits(TotalSizeOf(progress)))]

\* { ...results.x, sizeFormatted: formatBytes(results.x.size) } for every x
FormattedResults(r) ==
  [c \in DOMAIN r |->
     IF c = "total"
       THEN [size |-> r[c].size, items |-> r[c].items,
             sizeFormatted |-> formatBytes(Digits(r[c].size))]
       ELSE [size |-> r[c].size, items |-> r[c].items, category |-> r[c].category,
             sizeFormatted |-> formatBytes(Digits(r[c].size))]]

\* Whether the sink throws on this event.
SinkThrows(kind, category) == throwOn = [kind |-> kind, scanning |-> category]

Init ==
  /\ fs \in FileSystems
  /\ listing = [d \in Dirs |-> << >>]
  /\ mode \in {"sse", "sync"}
  /\ throwOn \in ThrowPoints
  /\ (mode = "sync" => throwOn = NoThrow)
  /\ pc = "idle"
  /\ catIdx = 1
  /\ results = InitialResults
  /\ totalSize = 0
  /\ itemCount = 0
  /\ processedItems = << >>
  /\ stack = << >>
  /\ events = << >>
  /\ stream = << >>
  /\ thrown = FALSE
  /\ fmtIn = << >>
  /\ fmtOut = ""

\* The request arrives: the handler calls scanSafariStorage, which builds
\* results and enters its loop.
ApiScan ==
  /\ pc = "idle"
  /\ pc' = "loop"
  /\ results' = InitialResults
  /\ catIdx' = 1
  /\ UNCHANGED << fs, listing, mode, throwOn, totalSize, itemCount, processedItems, stack,
                  events, stream, thrown, fmtIn, fmtOut >>

\* Top of one loop iteration, up to the await: the start event is handed to
\* progressCallback when there is one.
CategoryStart ==
  /\ pc = "loop"
  /\ catIdx <= Len(categories)
  /\ LET category == categories[catIdx]
         ev == StartEvent(category)
     IN  IF mode = "sync"
           THEN /\ pc' = "delay"
                /\ UNCHANGED << events, stream, thrown >>
           ELSE /\ events' = Append(events, ev)
                /\ IF SinkThrows("start", category)
                     THEN /\ thrown' = TRUE
                          /\ pc' = "rejected"
                          /\ UNCHANGED stream
                     ELSE /\ stream' = Append(stream, ProgressMessage(ev))
                          /\ pc' = "delay"
                          /\ UNCHANGED thrown
  /\ UNCHANGED << fs, listing, mode, throwOn, catIdx, results, totalSize, itemCount,
                  processedItems, stack, fmtIn, fmtOut >>

\* The timer fires and getDirectorySize is entered: its locals are set and
\* processDirectory(dirPath) is the call to make.
EnterGetDirectorySize ==
  /\ pc = "delay"
  /\ pc' = "walk"
  /\ totalSize' = 0
  /\ itemCount' = 0
  /\ processedItems' = << >>
  /\ stack' = << RootPath(SAFARI_PATHS[categories[catIdx]]) >>
  /\ UNCHANGED << fs, listing, mode, throwOn, catIdx, results, events, stream, thrown,
                  fmtIn, fmtOut >>

walkUnchanged == << fs, listing, mode, throwOn, pc, catIdx, results, fmtIn, fmtOut >>

\* totalSize = stats.size: the size is assigned, not added.
AddSizeAssigned(total, stats) == stats.size

\* totalSize += stats.size
AddSize(total, stats) == total + stats.size

\* itemCount++
AddItem(count) == count + 1

\* The error leaves forEach: the entries after the failing one are dropped.
AfterCatchAbandon(pending) == << >>

\* The calls still to make once the catch block of processDirectory has
\* run for the first of them: the error stays in that call, and forEach
\* goes on with the entries after it.
AfterCatch(pending) == Tail(pending)

\* processDirectory: existsSync is false, return.
ProcessMissing ==
  /\ pc = "walk" /\ stack # << >>
  /\ ~existsSync(Head(stack))
  /\ stack' = Tail(stack)
  /\ UNCHANGED << totalSize, itemCount, processedItems, events, stream, thrown >>
  /\ UNCHANGED walkUnchanged

\* processDirectory: statSync throws, caught at line 65.
ProcessStatThrows ==
  /\ pc = "walk" /\ stack # << >>
  /\ existsSync(Head(stack))
  /\ statThrows(Head(stack))
  /\ stack' = AfterCatch(stack)
  /\ UNCHANGED << totalSize, itemCount, processedItems, events, stream, thrown >>
  /\ UNCHANGED walkUnchanged

\* processDirectory: a file.  The totals are updated, the item is recorded
\* and the callback is called; what the callback throws is caught at line 65.
ProcessFile ==
  /\ pc = "walk" /\ stack # << >>
  /\ existsSync(Head(stack))
  /\ ~statThrows(Head(stack))
  /\ statSync(Head(stack)).kind = "file"
  /\ LET currentPath == Head(stack)
         stats == statSync(currentPath)
         category == categories[catIdx]
         progress == [currentFile |-> basename(currentPath.node),
                      totalSize   |-> AddSize(totalSize, stats),
                      itemCount   |-> AddItem(itemCount),
                      inProgress  |-> TRUE]
         ev == FoundEvent(category, progress)
     IN  /\ totalSize' = AddSize(totalSize, stats)
         /\ itemCount' = AddItem(itemCount)
         /\ processedItems' = Append(processedItems,
                                     [path |-> currentPath.path, size |-> stats.size,
                                      name |-> basename(currentPath.node)])
         /\ IF mode = "sync"
              THEN UNCHANGED << events, stream, thrown >>
              ELSE /\ events' = Append(events, ev)
                   /\ IF SinkThrows("found", category)
                        THEN thrown' = TRUE /\ UNCHANGED stream
                        ELSE stream' = Append(stream, ProgressMessage(ev)) /\ UNCHANGED thrown
  /\ stack' = Tail(stack)
  /\ UNCHANGED walkUnchanged

\* processDirectory: a directory whose listing succeeds; processDirectory is
\* called on each entry in turn.
ProcessDirectory ==
  /\ pc = "walk" /\ stack # << >>
  /\ existsSync(Head(stack))
  /\ ~statThrows(Head(stack))
  /\ statSync(Head(stack)).kind = "dir"
  /\ ~readdirThrows(Head(stack))
  /\ LET currentPath == Head(stack)
     IN  \E files \in readdirSync(currentPath) :
           /\ listing' = [listing EXCEPT ![Resolve(currentPath.node, currentPath.links).node] = files]
           /\ stack' = [j \in 1..Len(files) |-> join(currentPath, files[j])] \o Tail(stack)
  /\ UNCHANGED << totalSize, itemCount, processedItems, events, stream, thrown >>
  /\ UNCHANGED << fs, mode, throwOn, pc, catIdx, results, fmtIn, fmtOut >>

\* processDirectory: readdirSync throws, caught at line 65.
ProcessReaddirThrows ==
  /\ pc = "walk" /\ stack # << >>
  /\ existsSync(Head(stack))
  /\ ~statThrows(Head(stack))
  /\ statSync(Head(stack)).kind = "dir"
  /\ readdirThrows(Head(stack))
  /\ stack' = AfterCatch(stack)
  /\ UNCHANGED << totalSize, itemCount, processedItems, events, stream, thrown >>
  /\ UNCHANGED walkUnchanged

\* processDirectory: neither a file nor a directory, nothing is done.
ProcessOther ==
  /\ pc = "walk" /\ stack # << >>
  /\ existsSync(Head(stack))
  /\ ~statThrows(Head(stack))
  /\ statSync(Head(stack)).kind \notin {"file", "dir"}
  /\ stack' = Tail(stack)
  /\ UNCHANGED << totalSize, itemCount, processedItems, events, stream, thrown >>
  /\ UNCHANGED walkUnchanged

\* What getDirectorySize returns (lines 73-77).
ReturnValue == [size |-> totalSize, items |-> itemCount, files |-> processedItems]

\* The fold with the total assigned, not added to.
FoldAssigned(r, category, data) ==
  [r EXCEPT ![category].size  = data.size,
            ![category].items = data.items,
            !.total.size      = data.size,
            !.total.items     = data.items]

\* results after lines 135-138 with data the value returned.
Fold(r, category, data) ==
  [r EXCEPT ![category].size  = data.size,
            ![category].items = data.items,
            !.total.size      = r.total.size + data.size,
            !.total.items     = r.total.items + data.items]

\* getDirectorySize returns and its result is folded into results; the
\* loop goes to the next category.
CategoryDone ==
  /\ pc = "walk" /\ stack = << >>
  /\ results' = Fold(results, categories[catIdx], ReturnValue)
  /\ catIdx' = catIdx + 1
  /\ pc' = "loop"
  /\ UNCHANGED << fs, listing, mode, throwOn, totalSize, itemCount, processedItems, stack,
                  events, stream, thrown, fmtIn, fmtOut >>

\* The loop is over: scanSafariStorage returns results.
ScanReturn ==
  /\ pc = "loop"
  /\ catIdx > Len(categories)
  /\ pc' = "resolved"
  /\ UNCHANGED << fs, listing, mode, throwOn, catIdx, results, totalSize, itemCount,
                  processedItems, stack, events, stream, thrown, fmtIn, fmtOut >>

\* The promise is fulfilled: /api/scan writes the 'complete' message,
\* /api/scan-sync answers success: true.
Respond ==
  /\ pc = "resolved"
  /\ pc' = "ended"
  /\ stream' = Append(stream,
                 IF mode = "sse"
                   THEN [type |-> "complete", results |-> FormattedResults(results)]
                   ELSE [success |-> TRUE, results |-> FormattedResults(results)])
  /\ UNCHANGED << fs, listing, mode, throwOn, catIdx, results, totalSize, itemCount,
                  processedItems, stack, events, thrown, fmtIn, fmtOut >>

\* The promise is rejected: /api/scan writes the 'error' message,
\* /api/scan-sync answers success: false.
RespondError ==
  /\ pc = "rejected"
  /\ pc' = "ended"
  /\ stream' = Append(stream,
                 IF mode = "sse"
                   THEN [type |-> "error", message |-> "sink"]
                   ELSE [success |-> FALSE, error |-> "sink"])
  /\ UNCHANGED << fs, listing, mode, throwOn, catIdx, results, totalSize, itemCount,
                  processedItems, stack, events, thrown, fmtIn, fmtOut >>

Next ==
  \/ ApiScan
  \/ CategoryStart
  \/ EnterGetDirectorySize
  \/ ProcessMissing
  \/ ProcessStatThrows
  \/ ProcessFile
  \/ ProcessDirectory
  \/ ProcessReaddirThrows
  \/ ProcessOther
  \/ CategoryDone
  \/ ScanReturn
  \/ Respond
  \/ RespondError

Spec == Init /\ [][Next]_vars

(***************************************************************************)
(* The formatter on its own: one call on a byte count below 2^41, of at    *)
(* most one base-1024 digit more than there are units.                     *)
(***************************************************************************)
DigitValues == {0, 1, 51, 512, 1023}

FormatInputs ==
  {d \in UNION {[1..l -> DigitValues] : l \in 0..(Len(Units) + 1)} :
     Len(d) > Len(Units) => d[Len(d)] <= 1}

InitFormat ==
  /\ fmtIn \in FormatInputs
  /\ fmtOut = ""
  /\ fs = BaseFs([n \in Leaves |-> 0])
  /\ listing = [d \in Dirs |-> << >>]
  /\ mode = "sync"
  /\ throwOn = NoThrow
  /\ pc = "idle"
  /\ catIdx = 1
  /\ results = InitialResults
  /\ totalSize = 0
  /\ itemCount = 0
  /\ processedItems = << >>
  /\ stack = << >>
  /\ events = << >>
  /\ stream = << >>
  /\ thrown = FALSE

\* The call formatBytes(bytes).
Format ==
  /\ fmtOut = ""
  /\ fmtOut' = formatBytes(fmtIn)
  /\ UNCHANGED << fmtIn, fs, listing, mode, throwOn, pc, catIdx, results, totalSize, itemCount,
                  processedItems, stack, events, stream, thrown >>

NextFormat == Format

SpecFormat == InitFormat /\ [][NextFormat]_vars

(***************************************************************************)
(* What the properties speak of.                                           *)
(***************************************************************************)
\* The category being scanned.
Current == categories[catIdx]

\* The fixed order of the categories, as the contract states it.
Rank(c) ==
  CASE c = "cookies" -> 1 [] c = "cache" -> 2 [] c = "history" -> 3
    [] c = "localStorage" -> 4 [] c = "databases" -> 5

CategoryNames == {"cookies", "cache", "history", "localStorage", "databases"}

\* The categories whose scan is over.
Completed == {c \in CategoryNames : \E i \in 1..Len(categories) : i < catIdx /\ categories[i] = c}

\* The nodes of the tree at n: n, and what its directories list, to any depth.
RECURSIVE TreeNodes(_)
TreeNodes(n) ==
  IF fs[n].kind = "dir"
    THEN {n} \cup UNION {TreeNodes(c) : c \in Present(n)}
    ELSE {n}

\* The tree at n is there and holds readable directories and regular files only.
CleanTree(n) ==
  /\ Reachable(n)
  /\ \A m \in TreeNodes(n) : fs[m].kind \in {"file", "dir"} /\ fs[m].fault = "none"

\* The regular files of the tree at n.
TreeFiles(n) == {m \in TreeNodes(n) : fs[m].kind = "file"}

RECURSIVE SumSizes(_)
SumSizes(S) ==
  IF S = {} THEN 0 ELSE LET m == CHOOSE x \in S : TRUE IN fs[m].size + SumSizes(S \ {m})

RECURSIVE SumSeq(_, _)
SumSeq(q, j) == IF j = 0 THEN 0 ELSE q[j] + SumSeq(q, j - 1)

IsStart(e) == "current" \in DOMAIN e
IsFound(e) == "total" \in DOMAIN e

\* C1: on a tree of readable directories and regular files, getDirectorySize
\* returns the exact sum of the sizes of the tree's files and their number,
\* each file being recorded exactly once; the stats folded into a category
\* are those.
C1_ExactTreeTotals ==
  /\ (pc = "walk" /\ stack = << >> /\ CleanTree(SAFARI_PATHS[Current])) =>
        LET T == TreeFiles(SAFARI_PATHS[Current])
        IN  /\ ReturnValue.size = SumSizes(T)
            /\ ReturnValue.items = Cardinality(T)
            /\ Len(ReturnValue.files) = Cardinality(T)
            /\ {ReturnValue.files[j].path : j \in 1..Len(ReturnValue.files)} = T
            /\ \A j \in 1..Len(ReturnValue.files) :
                  ReturnValue.files[j].size = fs[ReturnValue.files[j].path].size
  /\ \A c \in Completed :
        CleanTree(SAFARI_PATHS[c]) =>
          /\ results[c].size = SumSizes(TreeFiles(SAFARI_PATHS[c]))
          /\ results[c].items = Cardinality(TreeFiles(SAFARI_PATHS[c]))

\* The walk of Library/Safari is over on a clean tree with files in a
\* directory and in a subdirectory of it.
C1_Witness ==
  /\ pc = "walk" /\ stack = << >> /\ Current = "history"
  /\ CleanTree(SafariDir)
  /\ TreeFiles(SafariDir) = {HistoryFile, LocalFile}
  /\ fs[HistoryFile].size > 0 /\ fs[LocalFile].size > 0
  /\ totalSize = fs[HistoryFile].size + fs[LocalFile].size

\* C2: total.size is the sum of the five categories' sizes and total.items
\* the sum of their items, at every category boundary and in the summary
\* returned and sent, whatever is missing or unreadable.
C2_TotalIsSumOfParts ==
  LET SumOf(r, f) == SumSeq([i \in 1..5 |->
                        r[<< "cookies", "cache", "history", "localStorage", "databases" >>[i]][f]], 5)
  IN  /\ results.total.size = SumOf(results, "size")
      /\ results.total.items = SumOf(results, "items")
      /\ \A c \in CategoryNames \ Completed : results[c].size = 0 /\ results[c].items = 0
      /\ (pc = "ended" /\ "results" \in DOMAIN stream[Len(stream)]) =>
            LET sent == stream[Len(stream)].results
            IN  /\ sent.total.size = SumOf(sent, "size")
                /\ sent.total.items = SumOf(sent, "items")

\* A scan has returned a non-empty summary although a directory under a
\* category root could not be listed.
C2_Witness ==
  /\ pc = "resolved"
  /\ fs[LocalDir] = UnreadableDir
  /\ results.total.items = 2
  /\ results.cookies.items = 1 /\ results.history.items = 1

\* The call processDirectory(p) fails at p itself.
FailsAt(p) ==
  \/ ~existsSync(p)
  \/ statThrows(p)
  \/ statSync(p).kind = "dir" /\ readdirThrows(p)

\* The processDirectory calls that the call on p makes, itself included.
RECURSIVE Calls(_)
Calls(p) ==
  IF FailsAt(p) \/ statSync(p).kind # "dir" THEN 1
  ELSE LET files == CHOOSE l \in readdirSync(p) : TRUE
       IN  1 + SumSeq([j \in 1..Len(files) |-> Calls(join(p, files[j]))], Len(files))

\* The processDirectory calls left before getDirectorySize returns, the
\* pending ones being st.
CallsLeft(st) == SumSeq([j \in 1..Len(st) |-> Calls(st[j])], Len(st))

\* C3: a node that is missing, that vanishes before the stat, whose stat
\* fails or whose listing fails adds nothing to size and items, none of its
\* entries is visited, and the walk goes on with the calls that were pending
\* (its siblings first).  The walk never raises and always returns: the
\* failing call has a next step, every step stays in the walk or returns, and
\* each call leaves one call less to make.  A nonexistent root gives 0 and 0; Library/Safari
\* with LocalStorage unreadable and History.db readable gives History.db alone.
C3_FailuresAbsorbed ==
  /\ []((pc = "walk" /\ stack # << >> /\ FailsAt(Head(stack))) =>
          ENABLED (ProcessMissing \/ ProcessStatThrows \/ ProcessReaddirThrows))
  /\ [][(pc = "walk" /\ stack # << >> /\ FailsAt(Head(stack))) =>
          /\ totalSize' = totalSize
          /\ itemCount' = itemCount
          /\ processedItems' = processedItems
          /\ stack' = Tail(stack)
          /\ pc' = "walk"]_vars
  /\ [][pc = "walk" => pc' \in {"walk", "loop"}]_vars
  /\ [][(pc = "walk" /\ stack # << >>) => CallsLeft(stack') = CallsLeft(stack) - 1]_vars
  /\ [](\A c \in Completed :
          ~existsSync(RootPath(SAFARI_PATHS[c])) => results[c].size = 0 /\ results[c].items = 0)
  /\ []((fs[LocalDir] = UnreadableDir /\ "history" \in Completed) =>
          results.history.size = fs[HistoryFile].size /\ results.history.items = 1)

\* The listing of LocalStorage failed inside Library/Safari, and the walk
\* went through its siblings and ended with History.db alone.
C3_Witness ==
  /\ fs[LocalDir] = UnreadableDir
  /\ fs[HistoryFile].size > 0
  /\ Current = "history" /\ pc = "walk" /\ stack = << >>
  /\ itemCount = 1 /\ totalSize = fs[HistoryFile].size

\* C4: a symbolic link met by the walk is skipped: size, items and the
\* events stay as they are and nothing of it is visited.
C4_SymlinkSkipped ==
  [][(pc = "walk" /\ stack # << >> /\ fs[Head(stack).node].kind = "link") =>
       /\ totalSize' = totalSize
       /\ itemCount' = itemCount
       /\ events' = events
       /\ stack' = Tail(stack)]_vars

\* The events of category c, in order.
EventsOf(c) == SelectSeq(events, LAMBDA e : e.scanning = c)

\* C5: the events reach the sink in the order cookies, cache, history,
\* localStorage, databases; a category has one start event, which comes
\* before its file events; from one file event of a category to the next
\* currentSize does not decrease and currentItems grows by one.
C5_EventOrder ==
  /\ \A j \in 1..(Len(events) - 1) : Rank(events[j].scanning) <= Rank(events[j + 1].scanning)
  /\ \A c \in CategoryNames :
        LET E == EventsOf(c)
        IN  /\ E # << >> => IsStart(E[1])
            /\ \A j \in 2..Len(E) :
                  /\ IsFound(E[j])
                  /\ E[j].currentItems = j - 1
                  /\ j > 2 => E[j].currentSize >= E[j - 1].currentSize
  /\ (mode = "sse" /\ pc \in {"delay", "walk"}) => EventsOf(Current) # << >>
  /\ (mode = "sse" /\ pc = "resolved") => \A c \in CategoryNames : EventsOf(c) # << >>

\* A scan has returned after events of every category, two of them file
\* events of history.
C5_Witness ==
  /\ pc = "resolved" /\ mode = "sse"
  /\ Len(EventsOf("history")) = 3
  /\ Len(EventsOf("cookies")) = 2
  /\ Len(EventsOf("localStorage")) = 2
  /\ EventsOf("history")[3].currentSize > EventsOf("history")[2].currentSize

\* The size (f = "size") or items of the categories before c in the order.
PriorTotal(c, f) ==
  SumSeq([i \in 1..5 |->
            IF i < Rank(c)
              THEN results[<< "cookies", "cache", "history", "localStorage", "databases" >>[i]][f]
              ELSE 0], 5)

\* C6: the total of every file event is the sum of the final stats of the
\* categories completed before its own plus its own running size and items;
\* the running values are those of the files measured so far in the
\* category, the one just measured included.
C6_GrandTotalFresh ==
  /\ \A j \in 1..Len(events) :
        IsFound(events[j]) =>
          /\ events[j].total.size = PriorTotal(events[j].scanning, "size") + events[j].currentSize
          /\ events[j].total.items = PriorTotal(events[j].scanning, "items") + events[j].currentItems
  /\ (mode = "sse" /\ pc = "walk") =>
        LET E == EventsOf(Current)
        IN  /\ Len(E) = Len(processedItems) + 1
            /\ \A j \in 1..Len(processedItems) :
                  /\ E[j + 1].currentItems = j
                  /\ E[j + 1].currentSize =
                        SumSeq([i \in 1..Len(processedItems) |-> processedItems[i].size], j)

\* A file event of localStorage carries a total above its category's running
\* size: earlier categories had files.
C6_Witness ==
  /\ mode = "sse" /\ pc = "walk" /\ Current = "localStorage"
  /\ events # << >>
  /\ IsFound(events[Len(events)])
  /\ events[Len(events)].currentSize > 0
  /\ events[Len(events)].total.size > events[Len(events)].currentSize
  /\ events[Len(events)].total.items = 4

\* C7: once an invocation of the progress callback has thrown, the scan
\* does not return a summary: the request ends with the error message.
C7_ThrowFailsScan ==
  thrown =>
    /\ pc # "resolved"
    /\ pc = "ended" =>
          /\ "type" \in DOMAIN stream[Len(stream)]
          /\ stream[Len(stream)].type = "error"

\* The two-decimal rendering of a number of hundredths.
TwoDecimalString(h) ==
  NatString(h \div 100) \o "." \o DigitChar((h % 100) \div 10) \o DigitChar(h % 10)

\* C8: formatBytes gives "0 B" for zero and otherwise the scaled value with
\* exactly two decimals, a space and one of B, KB, MB, GB; 1536 gives
\* "1.50 KB" and 1073741824 gives "1.00 GB".
C8_TwoDecimalsAndUnit ==
  fmtOut # "" =>
    /\ IF Top(fmtIn, Len(fmtIn)) = 0
         THEN fmtOut = "0 B"
         ELSE \E u \in {"B", "KB", "MB", "GB"} :
                fmtOut = TwoDecimalString(toFixed2(fmtIn, LogK(fmtIn))) \o " " \o u
    /\ fmtIn = Digits(1536) => fmtOut = "1.50 KB"
    /\ fmtIn = Digits(1073741824) => fmtOut = "1.00 GB"

\* C9: the progress messages of a stream carry the running grand total: the
\* message of a category start carries the total of the categories
\* completed, and size and items never decrease from one message to the
\* next, up to the total of the 'complete' message.
C9_ProgressCarriesGrandTotal ==
  mode = "sse" =>
    /\ \A j \in 1..(Len(stream) - 1) :
          stream[j].type = "progress" =>
            LET next == IF stream[j + 1].type = "complete"
                          THEN stream[j + 1].results.total
                          ELSE stream[j + 1]
            IN  stream[j + 1].type \in {"progress", "complete"} =>
                  stream[j].size <= next.size /\ stream[j].items <= next.items
    /\ pc = "delay" =>
          /\ stream[Len(stream)].size = results.total.size
          /\ stream[Len(stream)].items = results.total.items

\* The regular files on disk under the category roots.
DiskFiles == {n \in Nodes : fs[n].kind = "file" /\ Reachable(n)}

\* C10: the summary counts no file twice: total.items is at most the number
\* of regular files under the roots and total.size at most their sizes' sum.
C10_NoFileCountedTwice ==
  pc = "resolved" =>
    /\ results.total.items <= Cardinality(DiskFiles)
    /\ results.total.size <= SumSizes(DiskFiles)

====
